---- MODULE Spec2Model ----
(***************************************************************************)
(* dotsync (src/dotsync/src/main.rs): the provisioning state machine.      *)
(* One invocation of the tool runs one command to completion, so every     *)
(* command is one action.  The state is what survives between invocations: *)
(* the state file, the filesystem, the backup archives and the wall clock. *)
(*                                                                         *)
(* Strings that are paths are sequences of components; the first component *)
(* is "~" for a home-relative string, "/" for an absolute one and a plain  *)
(* name for a string relative to the working directory.  A location is the *)
(* sequence of components below the filesystem root.  Directories are      *)
(* implicit.  An Option<T> is a sequence of length at most one.            *)
(***************************************************************************)
EXTENDS Integers, Sequences, FiniteSets, TLC

VARIABLES stateFile, fs, archives, clock, last

vars == <<stateFile, fs, archives, clock, last>>

\* ---------------------------------------------------------------- bounds
MaxClock == 2

\* the longest URL, in tokens, that the classification is run on
MaxUrlLen == 3

\* ------------------------------------------------------------- Option<T>
None == <<>>

Some(x) == <<x>>

IsSome(o) == Len(o) = 1

Unwrap(o) == o[1]

\* ------------------------------------------------------------ permissions
READONLY_PERMISSIONS == 292

WRITABLE_PERMISSIONS == 420

\* ------------------------------------------------------------------ paths
HomeDir == <<"/", "home">>

Cwd == <<"home", "proj">>

IsAbsolute(p) == Len(p) > 0 /\ Head(p) = "/"

\* expand_home: only a leading "~" is replaced by $HOME
expand_home(p) ==
    IF Len(p) > 0 /\ Head(p) = "~" THEN HomeDir \o Tail(p) ELSE p

\* PathBuf::from(s) handed to a system call: absolute strings are taken from
\* the root, every other string (a leading "~" included) from the working
\* directory; empty components (doubled or trailing separators) do not count
NonEmpty(c) == c # ""

PathLoc(p) ==
    SelectSeq(IF IsAbsolute(p) THEN Tail(p) ELSE Cwd \o p, NonEmpty)

\* Path::join: an absolute argument replaces the base
PathJoin(base, p) == IF IsAbsolute(p) THEN p ELSE base \o p

RECURSIVE trim_end_matches(_)
\* str::trim_end_matches('/'): trailing separators (empty components) go
trim_end_matches(p) ==
    IF Len(p) > 0 /\ p[Len(p)] = ""
    THEN trim_end_matches(SubSeq(p, 1, Len(p) - 1))
    ELSE p

\* Path::with_extension("zip.tmp") of the destination: a sibling of it
TempZip(p) == Append(p, "#zip.tmp")

\* ------------------------------------------------------------- filesystem
FileEntry(d) == [kind |-> "file", data |-> d, to |-> <<>>]

LinkEntry(t) == [kind |-> "link", data |-> "", to |-> t]

FsPut(f, loc, e) == [l \in DOMAIN f \cup {loc} |-> IF l = loc THEN e ELSE f[l]]

FsDel(f, loc) == [l \in DOMAIN f \ {loc} |-> f[l]]

\* symlink_metadata succeeds: something is at loc, a dangling link included
LExists(f, loc) == loc \in DOMAIN f

is_symlink(f, loc) == LExists(f, loc) /\ f[loc].kind = "link"

RECURSIVE Follow(_, _, _)
\* the location a path resolves to, following links; <<>> when the walk
\* meets a missing entry or a loop (ENOENT, ELOOP)
Follow(f, loc, fuel) ==
    IF ~LExists(f, loc) \/ fuel = 0 THEN <<>>
    ELSE IF f[loc].kind = "link" THEN Follow(f, f[loc].to, fuel - 1)
    ELSE loc

Resolve(f, loc) == Follow(f, loc, Cardinality(DOMAIN f) + 1)

\* Path::exists follows links
Exists(f, loc) == Resolve(f, loc) # <<>>


\* the mode a newly created file gets (0666 masked by the usual umask 022)
CreateMode == WRITABLE_PERMISSIONS

\* ------------------------------------------------------------ mode bits
OwnerWritable(m) == (m \div 128) % 2 = 1

GroupWritable(m) == (m \div 16) % 2 = 1

OtherWritable(m) == (m \div 2) % 2 = 1

DeniesAllWrite(m) == ~OwnerWritable(m) /\ ~GroupWritable(m) /\ ~OtherWritable(m)

\* -------------------------------------------------------------- the record
\* a URL is a sequence of tokens; the markers the classification looks for
\* are tokens of their own
Contains(url, marker) == \E i \in 1..Len(url) : url[i] = marker

StartsWith(url, marker) == Len(url) > 0 /\ url[1] = marker

detect_source_type(url) ==
    IF Contains(url, "/archive/") \/ Contains(url, "/zipball/")
       \/ Contains(url, "/releases/download/")
    THEN "Zip"
    ELSE IF StartsWith(url, "git@") \/ StartsWith(url, "ssh://")
    THEN "GitSsh"
    ELSE "GitHttps"

\* struct State; every Option field is a sequence of length at most one
MkState(url, branch, path, backup_path, profiles, active, history, st) ==
    [url |-> url, branch |-> branch, path |-> path,
     backup_path |-> backup_path, profiles |-> profiles,
     active_profile |-> active, history |-> history, source_type |-> st]

\* struct History
MkHistory(created_at, backup, files) ==
    [created_at |-> created_at, backup |-> backup, files |-> files]

RequiredKeys == {"url", "path", "backup_path", "profiles"}

OptionalKeys == {"branch", "active_profile", "history", "source_type"}

\* serde_json::to_string_pretty with skip_serializing_if = Option::is_none:
\* the document has a key for every required field and for every Option
\* field that is Some
Serialize(s) ==
    [k \in RequiredKeys \cup {o \in OptionalKeys : IsSome(s[o])} |->
        IF k \in OptionalKeys THEN Unwrap(s[k]) ELSE s[k]]

\* serde_json::from_str::<State>: a required key must be there, an Option
\* field without a key is None
Parseable(doc) == RequiredKeys \subseteq DOMAIN doc

OptField(doc, k) == IF k \in DOMAIN doc THEN Some(doc[k]) ELSE None

Deserialize(doc) ==
    MkState(doc["url"], OptField(doc, "branch"), doc["path"],
            doc["backup_path"], doc["profiles"],
            OptField(doc, "active_profile"), OptField(doc, "history"),
            OptField(doc, "source_type"))

\* set_active_profile that leaves the field as it is
set_active_profile_keep(s, profile) == s

set_active_profile(s, profile) == [s EXCEPT !.active_profile = Some(profile)]

\* set_source_type that records every source as an archive
set_source_type_zip(s, st) == [s EXCEPT !.source_type = Some("Zip")]

set_source_type(s, st) == [s EXCEPT !.source_type = Some(st)]

\* append_history that keeps only the newest entry
append_history_replace(s, h) == [s EXCEPT !.history = Some(<<h>>)]

append_history(s, h) ==
    [s EXCEPT !.history =
        Some(Append(IF IsSome(s.history) THEN Unwrap(s.history) ELSE <<>>, h))]

\* ------------------------------------------------------------ State Store
\* the file at STATE_FILE_PATH: content is None when the file is absent or
\* holds no complete document
AbsentFile == [exists |-> FALSE, mode |-> 0, content |-> None]

\* State::read_state_file
read_state_file(sf) ==
    IF ~sf.exists THEN [ok |-> FALSE, state |-> None]
    ELSE IF ~IsSome(sf.content) \/ ~Parseable(Unwrap(sf.content))
    THEN [ok |-> FALSE, state |-> None]
    ELSE [ok |-> TRUE, state |-> Some(Deserialize(Unwrap(sf.content)))]

\* fs::write: open for writing (create, truncate), then write everything
CanOpenForWrite(sf) == ~sf.exists \/ OwnerWritable(sf.mode)

\* write_state_file without the step that makes an existing file writable
write_state_file_norelax(sf, s, fault) ==
    LET opened  == [exists |-> TRUE,
                    mode |-> IF sf.exists THEN sf.mode ELSE CreateMode,
                    content |-> None]
        written == [opened EXCEPT !.content = Some(Serialize(s))]
    IN  IF fault = "prepare" THEN [ok |-> FALSE, file |-> sf, hit |-> TRUE]
        ELSE IF ~CanOpenForWrite(sf)
        THEN [ok |-> FALSE, file |-> sf, hit |-> FALSE]
        ELSE IF fault = "open" THEN [ok |-> FALSE, file |-> sf, hit |-> TRUE]
        ELSE IF fault = "write" THEN [ok |-> FALSE, file |-> opened, hit |-> TRUE]
        ELSE IF fault = "chmodr"
        THEN [ok |-> FALSE, file |-> written, hit |-> TRUE]
        ELSE [ok |-> TRUE, hit |-> FALSE,
              file |-> [written EXCEPT !.mode = READONLY_PERMISSIONS]]

\* State::write_state_file; fault names the step the environment lets fail:
\* "prepare" (create_dir_all or the first set_permissions), "open" and
\* "write" (fs::write before and after truncating), "chmodr" (the last
\* set_permissions); "none": no failure.  hit tells that the failure
\* returned is the environment's
write_state_file(sf, s, fault) ==
    LET relaxed == IF sf.exists THEN [sf EXCEPT !.mode = WRITABLE_PERMISSIONS]
                   ELSE sf
        opened  == [exists |-> TRUE,
                    mode |-> IF relaxed.exists THEN relaxed.mode ELSE CreateMode,
                    content |-> None]
        written == [opened EXCEPT !.content = Some(Serialize(s))]
    IN  IF fault = "prepare" THEN [ok |-> FALSE, file |-> sf, hit |-> TRUE]
        ELSE IF ~CanOpenForWrite(relaxed)
        THEN [ok |-> FALSE, file |-> relaxed, hit |-> FALSE]
        ELSE IF fault = "open" THEN [ok |-> FALSE, file |-> relaxed, hit |-> TRUE]
        ELSE IF fault = "write" THEN [ok |-> FALSE, file |-> opened, hit |-> TRUE]
        ELSE IF fault = "chmodr"
        THEN [ok |-> FALSE, file |-> written, hit |-> TRUE]
        ELSE [ok |-> TRUE, hit |-> FALSE,
              file |-> [written EXCEPT !.mode = READONLY_PERMISSIONS]]

\* a remove_file that reports success and leaves the file in place
remove_file_keep(sf, fault) == [ok |-> TRUE, file |-> sf]

\* State::remove_file; unlink needs no permission on the file itself
remove_file(sf, fault) ==
    IF ~sf.exists THEN [ok |-> TRUE, file |-> sf]
    ELSE IF fault THEN [ok |-> FALSE, file |-> sf]
    ELSE [ok |-> TRUE, file |-> AbsentFile]

\* ------------------------------------------------------------------ inputs
BashrcTilde == <<"~", "bashrc">>

VimrcRel == <<"vimrc">>

ProfileAbs == <<"/", "home", "profile">>

\* the configuration of the end-to-end scenario (an archive URL, one
\* home-relative file in the default profile), with a second profile
CfgArchive ==
    [url |-> <<"https://", "example.com", "/archive/", "main.zip">>,
     path |-> <<"~", "df">>, backup_path |-> <<"~", "dfbackup">>,
     profiles |-> [default |-> <<BashrcTilde>>,
                   work |-> <<VimrcRel, ProfileAbs>>]]

CfgNoDefault ==
    [url |-> <<"git@", "example.com", "repo.git">>, branch |-> "main",
     path |-> <<"~", "df", "">>, backup_path |-> <<"~", "dfbackup">>,
     profiles |-> [work |-> <<VimrcRel>>]]

\* a document without the required url
CfgBroken ==
    [path |-> <<"~", "df">>, backup_path |-> <<"~", "dfbackup">>,
     profiles |-> [default |-> <<VimrcRel>>]]

\* a configuration document that carries a field the tool fills in at run
\* time (it parses as a State like any other)
CfgStale ==
    [url |-> <<"git@", "example.com", "repo.git">>,
     path |-> <<"~", "df">>, backup_path |-> <<"~", "dfbackup">>,
     profiles |-> [work |-> <<VimrcRel>>],
     active_profile |-> "work"]

ConfigDocs == {CfgArchive, CfgNoDefault, CfgBroken}

\* init's argument: no --config, a file that cannot be read, or a document
InitInputs ==
    {[kind |-> "nopath", doc |-> CfgBroken],
     [kind |-> "unreadable", doc |-> CfgBroken]}
    \cup {[kind |-> "doc", doc |-> d] : d \in ConfigDocs}

ProfileArgs == {"default", "work", "missing"}

\* what the remote source behind a URL holds, as paths below its root: the
\* archive has a vimrc, the repository has none of the listed files
RemoteTree(url) ==
    IF Contains(url, "main.zip") THEN {<<"vimrc">>} ELSE {}

\* files the user has before the tool is first run
UserFiles == {PathLoc(expand_home(BashrcTilde)), PathLoc(VimrcRel)}

\* positions in a profile's file list
FileIdx ==
    UNION {UNION {1..Len(d.profiles[k]) : k \in DOMAIN d.profiles} :
           d \in ConfigDocs}

\* ------------------------------------------------------ Repository Fetcher
Materialize(f, dest, tree) ==
    LET new == {dest \o r : r \in tree}
    IN  [l \in DOMAIN f \cup new |->
            IF l \in new THEN FileEntry("repo") ELSE f[l]]

\* download_and_extract_zip; fault names the step the environment lets fail:
\* "download" (create_dir_all or curl), "unzip_spawn" (unzip cannot be
\* started), "unzip_fail" (unzip exits with failure), "rm_temp"
download_and_extract_zip(f, path, tree, fault) ==
    LET temp_zip   == PathLoc(TempZip(path))
        downloaded == FsPut(f, temp_zip, FileEntry("zip"))
        extracted  == Materialize(downloaded, PathLoc(path), tree)
    IN  IF fault = "download"
        THEN [ok |-> FALSE, fs |-> f]
        ELSE IF fault = "unzip_spawn" THEN [ok |-> FALSE, fs |-> downloaded]
        ELSE IF fault = "unzip_fail"
        THEN [ok |-> FALSE, fs |-> FsDel(downloaded, temp_zip)]
        ELSE IF fault = "rm_temp" THEN [ok |-> FALSE, fs |-> extracted]
        ELSE [ok |-> TRUE, fs |-> FsDel(extracted, temp_zip)]

\* clone_repository; fault "clone" is a failure of create_dir_all or of git
clone_repository(f, path, tree, fault) ==
    IF fault = "clone"
    THEN [ok |-> FALSE, fs |-> f]
    ELSE [ok |-> TRUE, fs |-> Materialize(f, PathLoc(path), tree)]

ZipFaults == {"download", "unzip_spawn", "unzip_fail", "rm_temp"}

GitFaults == {"no_git", "clone"}

WriteFaults == {"prepare", "open", "write", "chmodr"}

\* ------------------------------------------------------------------- init
\* init that writes the state file before it fetches
init_save_first(sf, f, input, fault) ==
    IF input.kind # "doc" \/ ~Parseable(input.doc)
    THEN [result |-> "config", stateFile |-> sf, fs |-> f, hit |-> FALSE]
    ELSE
    LET config      == Deserialize(input.doc)
        source_type == detect_source_type(config.url)
        repo_path   == expand_home(config.path)
        tree        == RemoteTree(config.url)
        saved == write_state_file(sf, set_source_type(config, source_type),
                                  fault.save)
        fetched ==
            IF source_type = "Zip"
            THEN download_and_extract_zip(f, repo_path, tree, fault.fetch)
            ELSE IF fault.fetch = "no_git" THEN [ok |-> FALSE, fs |-> f]
            ELSE clone_repository(f, repo_path, tree, fault.fetch)
    IN  IF ~saved.ok
        THEN [result |-> "state_write", stateFile |-> saved.file, fs |-> f,
              hit |-> saved.hit]
        ELSE [result |-> IF fetched.ok THEN "ok" ELSE "fetch",
              stateFile |-> saved.file, fs |-> fetched.fs,
              hit |-> ~fetched.ok]

\* fault.fetch is the Fetcher step that fails, fault.save the step of
\* write_state_file that fails ("none": no failure)
init(sf, f, input, fault) ==
    IF input.kind # "doc" \/ ~Parseable(input.doc)
    THEN [result |-> "config", stateFile |-> sf, fs |-> f, hit |-> FALSE]
    ELSE
    LET config      == Deserialize(input.doc)
        source_type == detect_source_type(config.url)
        repo_path   == expand_home(config.path)
        tree        == RemoteTree(config.url)
        fetched ==
            IF source_type = "Zip"
            THEN download_and_extract_zip(f, repo_path, tree, fault.fetch)
            ELSE IF fault.fetch = "no_git" THEN [ok |-> FALSE, fs |-> f]
            ELSE clone_repository(f, repo_path, tree, fault.fetch)
        saved == write_state_file(sf, set_source_type(config, source_type),
                                  fault.save)
    IN  IF ~fetched.ok
        THEN [result |-> "fetch", stateFile |-> sf, fs |-> fetched.fs,
              hit |-> TRUE]
        ELSE [result |-> IF saved.ok THEN "ok" ELSE "state_write",
              stateFile |-> saved.file, fs |-> fetched.fs, hit |-> saved.hit]

\* ------------------------------------------------------------ Backup Engine
NoFault == [at |-> "none", idx |-> 0]

FaultAt(fault, at, i) == fault.at = at /\ fault.idx = i

\* backup_path.join("backup_<now>.zip")
ZipPath(dir, now) == [dir |-> dir, stamp |-> now]

ArchPut(a, zp, v) == [z \in DOMAIN a \cup {zp} |-> IF z = zp THEN v ELSE a[z]]

\* a loop that removes a file before it reads and archives it
BackupLoop_remove_first(f, entries, files, i, fault) ==
    LET RECURSIVE Go(_, _, _)
        Go(g, es, j) ==
            IF j > Len(files) THEN [ok |-> TRUE, fs |-> g, entries |-> es]
            ELSE
            LET source == PathLoc(files[j])
                added  == Append(es, [name |-> files[j],
                                      data |-> g[Resolve(g, source)].data])
            IN  IF ~Exists(g, source) THEN Go(g, es, j + 1)
                ELSE IF FaultAt(fault, "remove", j)
                THEN [ok |-> FALSE, fs |-> g, entries |-> es]
                ELSE IF FaultAt(fault, "archive", j)
                THEN [ok |-> FALSE, fs |-> FsDel(g, source), entries |-> es]
                ELSE Go(FsDel(g, source), added, j + 1)
    IN  Go(f, entries, i)

RECURSIVE BackupLoop(_, _, _, _, _)
\* the for loop of create_backup from the i-th file on: a file that exists
\* is read, written into the archive and then removed; fault "archive" is a
\* failure of fs::read, start_file or write_all, "remove" of fs::remove_file
BackupLoop(f, entries, files, i, fault) ==
    IF i > Len(files) THEN [ok |-> TRUE, fs |-> f, entries |-> entries]
    ELSE
    LET source == PathLoc(files[i])
        added  == Append(entries,
                         [name |-> files[i], data |-> f[Resolve(f, source)].data])
    IN  IF ~Exists(f, source) THEN BackupLoop(f, entries, files, i + 1, fault)
        ELSE IF FaultAt(fault, "archive", i)
        THEN [ok |-> FALSE, fs |-> f, entries |-> entries]
        ELSE IF FaultAt(fault, "remove", i)
        THEN [ok |-> FALSE, fs |-> f, entries |-> added]
        ELSE BackupLoop(FsDel(f, source), added, files, i + 1, fault)

\* fault "bkopen" is a failure of create_dir_all or File::create, "finish"
\* of zip.finish
create_backup(f, arch, files, target_dir, now, fault) ==
    LET zip_path == ZipPath(PathLoc(expand_home(target_dir)), now)
        created  == ArchPut(arch, zip_path,
                            [entries |-> <<>>, finished |-> FALSE])
        loop     == BackupLoop(f, <<>>, files, 1, fault)
        filled   == ArchPut(arch, zip_path,
                            [entries |-> loop.entries, finished |-> FALSE])
        finished == ArchPut(arch, zip_path,
                            [entries |-> loop.entries, finished |-> TRUE])
    IN  IF fault.at = "bkopen"
        THEN [ok |-> FALSE, fs |-> f, archives |-> arch, zip_path |-> zip_path]
        ELSE IF ~loop.ok \/ fault.at = "finish"
        THEN [ok |-> FALSE, fs |-> loop.fs, archives |-> filled,
              zip_path |-> zip_path]
        ELSE [ok |-> TRUE, fs |-> loop.fs, archives |-> finished,
              zip_path |-> zip_path]

\* ----------------------------------------------------------- Symlink Engine
\* a loop that passes over a link it cannot make and goes on
LinkLoop_skip(f, files, source_path, i, fault) ==
    LET RECURSIVE Go(_, _)
        Go(g, j) ==
            IF j > Len(files) THEN [ok |-> TRUE, fs |-> g, hit |-> FALSE]
            ELSE
            LET target == PathLoc(files[j])
                source == PathLoc(PathJoin(source_path, files[j]))
            IN  IF LExists(g, target) \/ FaultAt(fault, "link", j)
                THEN Go(g, j + 1)
                ELSE Go(FsPut(g, target, LinkEntry(source)), j + 1)
    IN  Go(f, i)

RECURSIVE LinkLoop(_, _, _, _, _)
\* the for loop of create_symlinks from the i-th file on; symlink(2) fails
\* when something is at the target already, or where the environment lets
\* it (or create_dir_all before it) fail
LinkLoop(f, files, source_path, i, fault) ==
    IF i > Len(files) THEN [ok |-> TRUE, fs |-> f, hit |-> FALSE]
    ELSE
    LET target == PathLoc(files[i])
        source == PathLoc(PathJoin(source_path, files[i]))
    IN  IF LExists(f, target) THEN [ok |-> FALSE, fs |-> f, hit |-> FALSE]
        ELSE IF FaultAt(fault, "link", i)
        THEN [ok |-> FALSE, fs |-> f, hit |-> TRUE]
        ELSE LinkLoop(FsPut(f, target, LinkEntry(source)), files,
                      source_path, i + 1, fault)

create_symlinks(f, files, source_dir, fault) ==
    LinkLoop(f, files, expand_home(trim_end_matches(source_dir)), 1, fault)

\* ------------------------------------------------------------------ setup
SetupFaults ==
    {NoFault}
    \cup {[at |-> a, idx |-> i] : a \in {"archive", "remove", "link"},
                                  i \in FileIdx}
    \cup {[at |-> a, idx |-> 0] : a \in {"bkopen", "finish"} \cup WriteFaults}

SaveFault(fault) == IF fault.at \in WriteFaults THEN fault.at ELSE "none"

\* a resolution that falls back to whatever profile there is
ResolveProfile_any(profiles, profile) ==
    IF profile \in DOMAIN profiles THEN Some(profiles[profile])
    ELSE IF "default" \in DOMAIN profiles THEN Some(profiles["default"])
    ELSE IF DOMAIN profiles # {}
    THEN Some(profiles[CHOOSE k \in DOMAIN profiles : TRUE])
    ELSE None

\* the file list setup works on: the requested profile's, else default's
ResolveProfile(profiles, profile) ==
    IF profile \in DOMAIN profiles THEN Some(profiles[profile])
    ELSE IF "default" \in DOMAIN profiles THEN Some(profiles["default"])
    ELSE None

setup(sf, f, arch, now, profile, fault) ==
    LET loaded == read_state_file(sf)
        state  == set_active_profile(Unwrap(loaded.state), profile)
        found  == ResolveProfile(state.profiles, profile)
        profile_files == Unwrap(found)
        backup == create_backup(f, arch, profile_files, state.backup_path,
                                now, fault)
        linked == create_symlinks(backup.fs, profile_files, state.path, fault)
        history == MkHistory(now, backup.zip_path, profile_files)
        saved  == write_state_file(sf, append_history(state, history),
                                   SaveFault(fault))
        same   == [stateFile |-> sf, fs |-> f, archives |-> arch,
                   hit |-> FALSE]
    IN  IF ~loaded.ok THEN [result |-> "state_read"] @@ same
        ELSE IF ~IsSome(found) THEN [result |-> "no_default"] @@ same
        ELSE IF ~backup.ok
        THEN [result |-> "backup", stateFile |-> sf, fs |-> backup.fs,
              archives |-> backup.archives, hit |-> TRUE]
        ELSE IF ~linked.ok
        THEN [result |-> "link", stateFile |-> sf, fs |-> linked.fs,
              archives |-> backup.archives, hit |-> linked.hit]
        ELSE [result |-> IF saved.ok THEN "ok" ELSE "state_write",
              stateFile |-> saved.file, fs |-> linked.fs,
              archives |-> backup.archives, hit |-> saved.hit]

\* ----------------------------------------------------------------- status
Line(tag, file) == [tag |-> tag, file |-> file]

StatusLines(f, files) ==
    [i \in 1..Len(files) |->
        Line(IF is_symlink(f, PathLoc(expand_home(files[i]))) THEN "+" ELSE "-",
             files[i])]

\* status that takes a record it cannot load for one without active profile
status_lenient(sf, f) ==
    LET loaded == read_state_file(sf)
        state  == Unwrap(loaded.state)
        profile == Unwrap(state.active_profile)
    IN  IF ~loaded.ok \/ ~IsSome(state.active_profile)
        THEN [result |-> "ok", out |-> <<Line("no active profile set.", <<>>)>>]
        ELSE IF profile \notin DOMAIN state.profiles
        THEN [result |-> "ok", out |-> <<Line("no files found", <<>>)>>]
        ELSE [result |-> "ok", out |-> StatusLines(f, state.profiles[profile])]

status(sf, f) ==
    LET loaded == read_state_file(sf)
        state  == Unwrap(loaded.state)
        profile == Unwrap(state.active_profile)
    IN  IF ~loaded.ok THEN [result |-> "state_read", out |-> <<>>]
        ELSE IF ~IsSome(state.active_profile)
        THEN [result |-> "ok", out |-> <<Line("no active profile set.", <<>>)>>]
        ELSE IF profile \notin DOMAIN state.profiles
        THEN [result |-> "ok", out |-> <<Line("no files found", <<>>)>>]
        ELSE [result |-> "ok", out |-> StatusLines(f, state.profiles[profile])]

\* ---------------------------------------------------------------- destroy
\* a loop that gives up at the first removal that fails
DestroyLoop_abort(f, files, i, failing, out) ==
    LET RECURSIVE Go(_, _, _)
        Go(g, j, o) ==
            IF j > Len(files) THEN [fs |-> g, out |-> o]
            ELSE
            LET loc == PathLoc(expand_home(files[j]))
            IN  IF LExists(g, loc) /\ j \notin failing
                THEN Go(FsDel(g, loc), j + 1,
                        Append(o, Line("removed", files[j])))
                ELSE [fs |-> g,
                      out |-> Append(o, Line("couldn't remove", files[j]))]
    IN  Go(f, i, out)

RECURSIVE DestroyLoop(_, _, _, _, _)
\* the for loop of destroy from the i-th file on; failing is the set of
\* positions where the environment refuses the removal
DestroyLoop(f, files, i, failing, out) ==
    IF i > Len(files) THEN [fs |-> f, out |-> out]
    ELSE
    LET loc == PathLoc(expand_home(files[i]))
    IN  IF LExists(f, loc) /\ i \notin failing
        THEN DestroyLoop(FsDel(f, loc), files, i + 1, failing,
                         Append(out, Line("removed", files[i])))
        ELSE DestroyLoop(f, files, i + 1, failing,
                         Append(out, Line("couldn't remove", files[i])))

destroy(sf, f, failing, rmfault) ==
    LET loaded == read_state_file(sf)
        state  == Unwrap(loaded.state)
        profile == Unwrap(state.active_profile)
        swept ==
            IF ~IsSome(state.active_profile)
            THEN [fs |-> f, out |-> <<Line("no active profile set.", <<>>)>>]
            ELSE IF profile \notin DOMAIN state.profiles
            THEN [fs |-> f, out |-> <<Line("no files found", <<>>)>>]
            ELSE DestroyLoop(f, state.profiles[profile], 1, failing, <<>>)
        removed == remove_file(sf, rmfault)
    IN  IF ~loaded.ok
        THEN [result |-> "state_read", stateFile |-> sf, fs |-> f, out |-> <<>>]
        ELSE [result |-> IF removed.ok THEN "ok" ELSE "state_remove",
              stateFile |-> removed.file, fs |-> swept.fs, out |-> swept.out]

\* ---------------------------------------------------------------- actions
\* last: the command the latest invocation ran, its argument, what it
\* returned and printed, and whether it ran into a failure of the
\* environment (faulted) rather than none or one of its own making
Ran(op, profile, result, out, faulted) ==
    [op |-> op, profile |-> profile, result |-> result, out |-> out,
     faulted |-> faulted]

\* before the tool is first run the user's own dotfiles are in place
InitialFs(present) == [l \in present |-> FileEntry("orig")]

Init ==
    /\ stateFile = AbsentFile
    /\ fs = InitialFs(UserFiles)
    /\ archives = <<>>
    /\ clock = 0
    /\ last = Ran("start", "", "ok", <<>>, FALSE)

NoInitFault == [fetch |-> "none", save |-> "none"]

InitFaults(input) ==
    IF input.kind # "doc" \/ ~Parseable(input.doc)
    THEN {NoInitFault}
    ELSE {[fetch |-> x, save |-> "none"] :
            x \in {"none"} \cup
                  IF detect_source_type(input.doc["url"]) = "Zip"
                  THEN ZipFaults ELSE GitFaults}
         \cup {[fetch |-> "none", save |-> x] : x \in WriteFaults}

DoInit ==
    \E input \in InitInputs :
      \E fault \in InitFaults(input) :
        LET r == init(stateFile, fs, input, fault)
        IN  /\ stateFile' = r.stateFile
            /\ fs' = r.fs
            /\ last' = Ran("init", "", r.result, <<>>, r.hit)
            /\ UNCHANGED <<archives, clock>>

\* setup reads the clock once per run; a run that created an archive is
\* over before the next second starts, so that no two archives share a name.
\* A failure that the run does not meet is no failure: fault is either none
\* or one that the run ran into
DoSetup ==
    /\ clock < MaxClock
    /\ \E profile \in ProfileArgs, fault \in SetupFaults :
        LET r == setup(stateFile, fs, archives, clock, profile, fault)
        IN  /\ fault = NoFault \/ r.hit
            /\ stateFile' = r.stateFile
            /\ fs' = r.fs
            /\ archives' = r.archives
            /\ clock' = IF r.archives = archives THEN clock ELSE clock + 1
            /\ last' = Ran("setup", profile, r.result, <<>>, r.hit)

\* a status that leaves the record writable behind it
DoStatus_relax ==
    LET r == status(stateFile, fs)
    IN  /\ last' = Ran("status", "", r.result, r.out, FALSE)
        /\ stateFile' = IF stateFile.exists
                        THEN [stateFile EXCEPT !.mode = WRITABLE_PERMISSIONS]
                        ELSE stateFile
        /\ UNCHANGED <<fs, archives, clock>>

DoStatus ==
    LET r == status(stateFile, fs)
    IN  /\ last' = Ran("status", "", r.result, r.out, FALSE)
        /\ UNCHANGED <<stateFile, fs, archives, clock>>

\* every refusal of the environment is one the run meets: without it the
\* run would have ended otherwise
DoDestroy ==
    \E failing \in SUBSET FileIdx, rmfault \in BOOLEAN :
        LET r == destroy(stateFile, fs, failing, rmfault)
        IN  /\ \A i \in failing :
                 r # destroy(stateFile, fs, failing \ {i}, rmfault)
            /\ rmfault => r # destroy(stateFile, fs, failing, FALSE)
            /\ stateFile' = r.stateFile
            /\ fs' = r.fs
            /\ last' = Ran("destroy", "", r.result, r.out,
                           failing # {} \/ rmfault)
            /\ UNCHANGED <<archives, clock>>

\* Commands::Refresh and Commands::Backup return Ok(()) and do nothing else
DoRefresh ==
    /\ last' = Ran("refresh", "", "ok", <<>>, FALSE)
    /\ UNCHANGED <<stateFile, fs, archives, clock>>

DoBackup ==
    /\ last' = Ran("backup", "", "ok", <<>>, FALSE)
    /\ UNCHANGED <<stateFile, fs, archives, clock>>

Next == DoInit \/ DoSetup \/ DoStatus \/ DoDestroy \/ DoRefresh \/ DoBackup

Spec == Init /\ [][Next]_vars

\* ------------------------------------------------------------------ claims
\* the record on disk can be loaded
Readable(sf) == read_state_file(sf).ok

\* the State a load of the record on disk yields
Loaded(sf) == Unwrap(read_state_file(sf).state)

ReadOnly(sf) == sf.exists /\ DeniesAllWrite(sf.mode)

Saves(l) == l.op \in {"init", "setup"}

History(sf) ==
    LET h == Loaded(sf).history
    IN  IF IsSome(h) THEN Unwrap(h) ELSE <<>>

IsPrefix(a, b) == Len(a) <= Len(b) /\ SubSeq(b, 1, Len(a)) = a

\* the file list the latest recorded setup run worked on
LastRunFiles(sf) ==
    LET h == History(sf)
    IN  h[Len(h)].files

\* the file list status and destroy take for the active profile's
ActiveFiles(sf) ==
    LET s == Loaded(sf)
    IN  IF IsSome(s.active_profile)
           /\ Unwrap(s.active_profile) \in DOMAIN s.profiles
        THEN s.profiles[Unwrap(s.active_profile)]
        ELSE <<>>

ValidInputs == {i \in InitInputs : i.kind = "doc" /\ Parseable(i.doc)}

NoActiveProfile == <<Line("no active profile set.", <<>>)>>

\* C1: after every successful save (init, setup) the record exists with mode
\* 0444, which denies write access to owner, group and others; and a save
\* on a record that is read-only succeeds (the permissions are relaxed, the
\* file overwritten, read-only restored) unless the environment fails it
C1_SaveLeavesReadOnly ==
    /\ (Saves(last) /\ last.result = "ok")
         => (ReadOnly(stateFile) /\ stateFile.mode = READONLY_PERMISSIONS)
    /\ (ReadOnly(stateFile) /\ Readable(stateFile))
         => /\ \A input \in ValidInputs :
                 LET r == init(stateFile, fs, input, NoInitFault)
                 IN  r.result = "ok" /\ ReadOnly(r.stateFile)
            /\ \A profile \in ProfileArgs :
                 LET r == setup(stateFile, fs, archives, clock, profile, NoFault)
                 IN  r.result # "state_write"
                     /\ (r.result = "ok" => ReadOnly(r.stateFile))

\* C1 witness: a second setup has overwritten a record that the saves before
\* it had left read-only, and left it read-only again
C1_Witness ==
    /\ last.op = "setup" /\ last.result = "ok"
    /\ ReadOnly(stateFile)
    /\ Readable(stateFile)
    /\ Len(History(stateFile)) = 2

\* C2 (as claimed): a setup of a profile that is no key of profiles, while
\* default is one, ends as a setup of "default" from the same state (with
\* the record at rest) and under the same environment ends: same record on
\* disk, same filesystem, same archives, same result
C2_FallbackSameAsDefault ==
    [][(/\ last'.op = "setup"
        /\ Readable(stateFile) /\ ReadOnly(stateFile)
        /\ last'.profile \notin DOMAIN Loaded(stateFile).profiles
        /\ "default" \in DOMAIN Loaded(stateFile).profiles)
       => \E fault \in SetupFaults :
            LET d == setup(stateFile, fs, archives, clock, "default", fault)
            IN  /\ stateFile' = d.stateFile
                /\ fs' = d.fs
                /\ archives' = d.archives
                /\ last'.result = d.result]_vars

\* C3 (as claimed): the active_profile of a record on disk, when set, is a
\* key of profiles or "default"
C3_ActiveProfileResolves ==
    (Readable(stateFile) /\ IsSome(Loaded(stateFile).active_profile))
    => \/ Unwrap(Loaded(stateFile).active_profile)
            \in DOMAIN Loaded(stateFile).profiles
       \/ Unwrap(Loaded(stateFile).active_profile) = "default"

\* C4 (as claimed): across every operation that meets no failure of the
\* environment, the history on disk before it is a prefix of the history
\* after it, unless the operation is a destroy that deleted the record
C4_HistoryAppendOnly ==
    [][(Readable(stateFile) /\ ~last'.faulted)
       => \/ last'.op = "destroy" /\ ~stateFile'.exists
          \/ /\ Readable(stateFile')
             /\ IsPrefix(History(stateFile), History(stateFile'))]_vars

\* C4 (amended): across every operation the history on disk before it is a
\* prefix of the history after it, unless the operation is a destroy that
\* deleted the record, an init (which overwrites the record with the
\* configuration), or a save that the environment failed after the file was
\* truncated (which leaves no record that can be loaded)
C4_HistoryAppendOnlyButInit ==
    [][Readable(stateFile)
       => \/ last'.op = "destroy" /\ ~stateFile'.exists
          \/ last'.op = "init"
          \/ /\ last'.result = "state_write" /\ last'.faulted
             /\ ~Readable(stateFile')
          \/ /\ Readable(stateFile')
             /\ IsPrefix(History(stateFile), History(stateFile'))]_vars

\* C4 witness: a setup has appended a second entry behind the first
C4_Witness ==
    /\ last.op = "setup" /\ last.result = "ok"
    /\ Readable(stateFile)
    /\ Len(History(stateFile)) = 2
    /\ History(stateFile)[1].created_at < History(stateFile)[2].created_at

\* C5: where neither the requested profile nor default is a key of profiles,
\* setup fails with the profile-resolution error and changes nothing: not the
\* record, not a file or link, not an archive
C5_UnresolvableProfileFails ==
    Readable(stateFile)
    => LET profiles == Loaded(stateFile).profiles
       IN  "default" \notin DOMAIN profiles
           => \A profile \in ProfileArgs \ DOMAIN profiles,
                 fault \in SetupFaults :
                LET r == setup(stateFile, fs, archives, clock, profile,
                               fault)
                IN  /\ r.result = "no_default"
                    /\ r.stateFile = stateFile
                    /\ r.fs = fs
                    /\ r.archives = archives

\* C5 witness: setup of "missing" has failed on a record without default
C5_Witness ==
    /\ last.op = "setup" /\ last.result = "no_default"
    /\ last.profile = "missing"
    /\ Readable(stateFile)
    /\ "default" \notin DOMAIN Loaded(stateFile).profiles

\* C6: whichever step of the Fetcher fails (download, extraction, clone, no
\* git), init reports the failure and leaves the record as it was, absent
\* or present
C6_FetchFailureWritesNothing ==
    \A input \in ValidInputs :
      \A fault \in InitFaults(input) :
        fault.fetch # "none"
        => LET r == init(stateFile, fs, input, fault)
           IN  r.result = "fetch" /\ r.stateFile = stateFile

\* C6 witness: an init has failed in the Fetcher over a record that exists
C6_Witness ==
    /\ last.op = "init" /\ last.result = "fetch" /\ last.faulted
    /\ Readable(stateFile)

\* C7 (as claimed): a status that follows a successful setup reports every
\* file of the list that setup worked on as linked
C7_StatusReportsLinked ==
    [][(last.op = "setup" /\ last.result = "ok" /\ last'.op = "status")
       => /\ last'.result = "ok"
          /\ last'.out = [i \in 1..Len(LastRunFiles(stateFile)) |->
                            Line("+", LastRunFiles(stateFile)[i])]]_vars

\* C8 (as claimed): a status that follows a destroy which deleted the record
\* succeeds and reports that no active profile is set
C8_StatusAfterDestroy ==
    [][(last.op = "destroy" /\ ~stateFile.exists /\ last'.op = "status")
       => (last'.result = "ok" /\ last'.out = NoActiveProfile)]_vars

\* C8 (amended): status succeeds exactly when the record can be loaded; with
\* the record absent (before init, after destroy) it fails with the
\* state-read error and prints nothing; it reports that no active profile is
\* set exactly when the record is there with active_profile unset
C8_StatusNeedsRecord ==
    last.op = "status"
    => /\ (last.result = "ok") <=> Readable(stateFile)
       /\ ~Readable(stateFile)
            => (last.result = "state_read" /\ last.out = <<>>)
       /\ (last.out = NoActiveProfile)
            <=> (Readable(stateFile)
                 /\ ~IsSome(Loaded(stateFile).active_profile))

\* C8 witness: status has failed after a destroy deleted the record of a
\* tool that had been set up
C8_Witness ==
    /\ last.op = "status" /\ last.result = "state_read"
    /\ ~stateFile.exists
    /\ archives # <<>>

\* C9 (as claimed): after a successful setup and then a destroy that
\* succeeded without any removal failing, none of the links setup created is
\* left and the record is absent
C9_DestroyRemovesLinks ==
    [][(/\ last.op = "setup" /\ last.result = "ok"
        /\ last'.op = "destroy" /\ last'.result = "ok"
        /\ \A i \in 1..Len(last'.out) : last'.out[i].tag # "couldn't remove")
       => /\ ~stateFile'.exists
          /\ \A i \in 1..Len(LastRunFiles(stateFile)) :
               ~is_symlink(fs', PathLoc(LastRunFiles(stateFile)[i]))]_vars

\* C10: when the record can be loaded and its own removal is not refused,
\* destroy returns success and the record is gone, whichever removals of the
\* active profile's files the environment refuses; every file of the list
\* gets its attempt, in order, and every file whose removal is not refused
\* is gone afterwards
C10_DestroyBestEffort ==
    Readable(stateFile)
    => LET files == ActiveFiles(stateFile)
       IN  \A failing \in SUBSET FileIdx :
             LET r == destroy(stateFile, fs, failing, FALSE)
             IN  /\ r.result = "ok"
                 /\ ~r.stateFile.exists
                 /\ files # <<>> =>
                      /\ Len(r.out) = Len(files)
                      /\ \A i \in 1..Len(files) :
                           /\ r.out[i].file = files[i]
                           /\ i \notin failing
                                => ~LExists(r.fs,
                                           PathLoc(expand_home(files[i])))

\* C10 witness: destroy has failed to remove the first file, removed the
\* second, deleted the record and returned success
C10_Witness ==
    /\ last.op = "destroy" /\ last.result = "ok" /\ last.faulted
    /\ ~stateFile.exists
    /\ Len(last.out) = 2
    /\ last.out[1].tag = "couldn't remove"
    /\ last.out[2].tag = "removed"

\* C11 (as claimed): a destroy run from any state leaves every regular file
\* (not a symlink) that sits at a path of the active profile where it is
C11_DestroyKeepsRegularFiles ==
    Readable(stateFile)
    => \A failing \in SUBSET FileIdx, rmfault \in BOOLEAN :
         LET r == destroy(stateFile, fs, failing, rmfault)
             files == ActiveFiles(stateFile)
         IN  \A i \in 1..Len(files) :
               LET loc == PathLoc(expand_home(files[i]))
               IN  (LExists(fs, loc) /\ fs[loc].kind = "file")
                   => (LExists(r.fs, loc) /\ r.fs[loc] = fs[loc])

\* C12: a setup that succeeds (the environment fails nothing, the profile
\* resolves, no target is taken) changes the record on disk in exactly this
\* way: active_profile becomes the requested profile, one history entry is
\* appended whose files are the list resolved for the run and whose backup
\* is the path of the archive the run produced, and url, branch, path,
\* backup_path, profiles and source_type stay as they were
C12_SetupRecordDelta ==
    \A profile \in ProfileArgs :
      LET r == setup(stateFile, fs, archives, clock, profile, NoFault)
          old == Loaded(stateFile)
          new == Loaded(r.stateFile)
          hs == History(r.stateFile)
          h == hs[Len(hs)]
      IN  r.result = "ok"
          => /\ Readable(stateFile) /\ Readable(r.stateFile)
             /\ new.active_profile = Some(profile)
             /\ hs = Append(History(stateFile), h)
             /\ h.files = Unwrap(ResolveProfile(old.profiles, profile))
             /\ h.backup \in DOMAIN r.archives \ DOMAIN archives
             /\ r.archives[h.backup].finished
             /\ \A k \in {"url", "branch", "path", "backup_path", "profiles",
                          "source_type"} : new[k] = old[k]

\* C12 witness: a setup of "work" over a record whose active profile was
\* "default" has succeeded; the record names "work", its newest history
\* entry lists the files of "work" and the archive holding the file that
\* was moved away
C12_Witness ==
    /\ last.op = "setup" /\ last.result = "ok" /\ last.profile = "work"
    /\ Readable(stateFile)
    /\ Loaded(stateFile).active_profile = Some("work")
    /\ Len(History(stateFile)) = 2
    /\ History(stateFile)[1].files = Loaded(stateFile).profiles["default"]
    /\ LastRunFiles(stateFile) = Loaded(stateFile).profiles["work"]
    /\ LET b == History(stateFile)[2].backup
       IN  b \in DOMAIN archives /\ Len(archives[b].entries) = 1

\* C13: for every valid configuration, an init that succeeds leaves a
\* record whose load has the configuration's url, branch, path, backup_path
\* and profiles, and as source_type the classification of the url
C13_InitThenLoad ==
    \A input \in ValidInputs :
      LET r == init(stateFile, fs, input, NoInitFault)
          s == Loaded(r.stateFile)
      IN  r.result = "ok"
          => /\ Readable(r.stateFile)
             /\ s.url = input.doc["url"]
             /\ s.branch = OptField(input.doc, "branch")
             /\ s.path = input.doc["path"]
             /\ s.backup_path = input.doc["backup_path"]
             /\ s.profiles = input.doc["profiles"]
             /\ s.source_type = Some(detect_source_type(input.doc["url"]))

\* C13 witness: an init from the configuration with a branch and an SSH url
\* has succeeded over the record of the other configuration, and the record
\* now loads with that branch and that classification
C13_Witness ==
    /\ last.op = "init" /\ last.result = "ok"
    /\ Readable(stateFile)
    /\ Loaded(stateFile).branch = Some("main")
    /\ Loaded(stateFile).source_type = Some("GitSsh")
    /\ "default" \notin DOMAIN Loaded(stateFile).profiles
    /\ archives # <<>>

\* ------------------------------------------------- classification of a URL
\* the strings detect_source_type is run on: sequences of at most MaxUrlLen
\* tokens, among them every marker the function looks for, an SSH login
\* other than git's and tokens that are no marker
UrlTokens ==
    {"/archive/", "/zipball/", "/releases/download/", "git@", "ssh://",
     "deploy@", "https://", "example.com"}

Urls == UNION {[1..n -> UrlTokens] : n \in 0..MaxUrlLen}

DoClassify ==
    /\ \E url \in Urls :
         last' = [op |-> "detect_source_type", url |-> url,
                  result |-> detect_source_type(url)]
    /\ UNCHANGED <<stateFile, fs, archives, clock>>

SpecClassify == Init /\ [][DoClassify]_vars

ArchiveMarkers == {"/archive/", "/zipball/", "/releases/download/"}

HasArchiveMarker(url) == \E i \in 1..Len(url) : url[i] \in ArchiveMarkers

\* a URL that begins with an SSH scheme (ssh://) or with user@ before the host
StartsAsSsh(url) == Len(url) > 0 /\ url[1] \in {"ssh://", "git@", "deploy@"}

\* C14 (as claimed): every URL gets one of the three classes; one with an
\* archive marker is an archive even when it begins as an SSH URL; without
\* such a marker, one that begins with an SSH scheme or in user@host form
\* is VCS-over-SSH, and every other is VCS-over-HTTPS
C14_ClassificationRule ==
    last.op = "detect_source_type"
    => /\ last.result \in {"Zip", "GitSsh", "GitHttps"}
       /\ HasArchiveMarker(last.url) => last.result = "Zip"
       /\ (~HasArchiveMarker(last.url) /\ StartsAsSsh(last.url))
            => last.result = "GitSsh"
       /\ (~HasArchiveMarker(last.url) /\ ~StartsAsSsh(last.url))
            => last.result = "GitHttps"

\* the files of a list that are on disk, in the order of the list; a path
\* that begins with ~ is one below the home directory
OnDisk(f, files) ==
    SelectSeq(files, LAMBDA file : Exists(f, PathLoc(expand_home(file))))

\* C15 (as claimed): a backup of any profile's list, some files of which
\* may not be on disk, succeeds when the environment fails nothing; the
\* archive holds exactly the listed files that were on disk, and exactly
\* those are gone from where they were
C15_BackupSkipsMissing ==
    Readable(stateFile)
    => \A p \in DOMAIN Loaded(stateFile).profiles :
         LET files == Loaded(stateFile).profiles[p]
             r == create_backup(fs, archives, files,
                                Loaded(stateFile).backup_path, clock, NoFault)
             entries == r.archives[r.zip_path].entries
         IN  /\ r.ok
             /\ [i \in 1..Len(entries) |-> entries[i].name] = OnDisk(fs, files)
             /\ \A i \in 1..Len(files) :
                  LET loc == PathLoc(expand_home(files[i]))
                  IN  IF Exists(fs, loc) THEN ~LExists(r.fs, loc)
                      ELSE LExists(r.fs, loc) = LExists(fs, loc)

C17_ReadOnlyAtRest ==
    stateFile.exists => DeniesAllWrite(stateFile.mode)

\* f with a regular file put at every location of the list where nothing is
WithAllPresent(f, files) ==
    LET locs == {PathLoc(files[i]) : i \in 1..Len(files)}
    IN  [l \in DOMAIN f \cup locs |->
            IF l \in DOMAIN f THEN f[l] ELSE FileEntry("orig")]

BackupFaults(files) ==
    {NoFault} \cup {[at |-> a, idx |-> i] : a \in {"archive", "remove"},
                                            i \in 1..Len(files)}
    \cup {[at |-> "finish", idx |-> 0]}

\* what C18 says of a setup of this profile of the loaded record over the
\* filesystem f
BackupBeforeMutate(f, state, profile) ==
    LET files == state.profiles[profile]
    IN  /\ \A fault \in BackupFaults(files) :
             LET b == create_backup(f, archives, files, state.backup_path,
                                    clock, fault)
             IN  \A loc \in DOMAIN f \ DOMAIN b.fs :
                   \E i \in 1..Len(b.archives[b.zip_path].entries) :
                     LET e == b.archives[b.zip_path].entries[i]
                     IN  /\ PathLoc(e.name) = loc
                         /\ e.data = f[Resolve(f, loc)].data
        /\ \A i \in 1..Len(files) :
             LET r == setup(stateFile, f, archives, clock, profile,
                            [at |-> "archive", idx |-> i])
             IN  Exists(f, PathLoc(files[i]))
                 => /\ r.result = "backup"
                    /\ r.stateFile = stateFile
                    /\ \A j \in i..Len(files) :
                         LExists(f, PathLoc(files[j]))
                         => LExists(r.fs, PathLoc(files[j]))
                    /\ \A l \in DOMAIN r.fs : l \in DOMAIN f /\ r.fs[l] = f[l]

\* C18: in the backup of a setup a file goes from its place only after its
\* content is in the archive, whichever step of the loop or of the closing
\* of the archive the environment fails; and when reading or archiving the
\* i-th file fails, that file and the later ones stay, no link is made and
\* the record is not rewritten. Checked for every profile of the record,
\* from every reachable state as it is and with every listed file present
C18_BackupBeforeMutate ==
    Readable(stateFile)
    => LET state == Loaded(stateFile)
       IN  \A profile \in DOMAIN state.profiles :
             \A f \in {fs, WithAllPresent(fs, state.profiles[profile])} :
               BackupBeforeMutate(f, state, profile)

\* C18 witness: a setup of "work" has failed in the backup while archiving
\* the first file: the archive is there without an entry, the file is
\* still a regular file in its place, the record is as it was
C18_Witness ==
    /\ last.op = "setup" /\ last.result = "backup" /\ last.profile = "work"
    /\ last.faulted
    /\ Readable(stateFile) /\ ReadOnly(stateFile)
    /\ History(stateFile) = <<>>
    /\ LExists(fs, PathLoc(VimrcRel)) /\ fs[PathLoc(VimrcRel)].kind = "file"
    /\ \E z \in DOMAIN archives :
         ~archives[z].finished /\ archives[z].entries = <<>>

\* a failure of the environment at the link of the i-th file
LinkFault(i) == [at |-> "link", idx |-> i]

\* C19: when making the link for the k-th file of the list fails in a setup
\* (something is at the target, or the environment fails the call), setup
\* returns the failure, the links of the files before the k-th are in place,
\* the k-th and later targets are as the backup left them, and the record on
\* disk is what it was, history and active_profile included. The
\* environment fails the i-th link at the latest, for every i
C19_LinkFailureNoRollback ==
    Readable(stateFile)
    => LET state == Loaded(stateFile)
       IN  \A profile \in ProfileArgs :
             LET found == ResolveProfile(state.profiles, profile)
                 files == Unwrap(found)
                 b == create_backup(fs, archives, files, state.backup_path,
                                    clock, NoFault).fs
                 Target(j) == PathLoc(files[j])
             IN  IsSome(found)
                 => \A i \in 1..Len(files) :
                      LET r == setup(stateFile, fs, archives, clock, profile,
                                     LinkFault(i))
                      IN  /\ r.result = "link"
                          /\ r.stateFile = stateFile
                          /\ \E k \in 1..i :
                               /\ \A j \in 1..(k - 1) :
                                    /\ ~LExists(b, Target(j))
                                    /\ is_symlink(r.fs, Target(j))
                               /\ \A j \in k..Len(files) :
                                    /\ LExists(r.fs, Target(j))
                                         = LExists(b, Target(j))
                                    /\ LExists(b, Target(j))
                                         => r.fs[Target(j)] = b[Target(j)]

\* C19 witness: a setup of "work" on a fresh record has failed at the link
\* of the second file: the first file's link is there, nothing is at the
\* second target, the record has no history and no active profile
C19_Witness ==
    /\ last.op = "setup" /\ last.result = "link" /\ last.profile = "work"
    /\ last.faulted
    /\ Readable(stateFile)
    /\ History(stateFile) = <<>>
    /\ ~IsSome(Loaded(stateFile).active_profile)
    /\ Len(Loaded(stateFile).profiles["work"]) = 2
    /\ is_symlink(fs, PathLoc(VimrcRel))
    /\ ~LExists(fs, PathLoc(ProfileAbs))

\* C20 (as claimed): right after a setup that succeeded, the same setup run
\* again, with nothing failing in the environment, succeeds, leaves every
\* target of the list the link it was and appends one more history entry;
\* also when a link of the first run points at nothing
C20_SetupReentrant ==
    (last.op = "setup" /\ last.result = "ok")
    => LET r == setup(stateFile, fs, archives, clock, last.profile, NoFault)
           files == LastRunFiles(stateFile)
       IN  /\ r.result = "ok"
           /\ \A i \in 1..Len(files) :
                /\ is_symlink(r.fs, PathLoc(files[i]))
                /\ r.fs[PathLoc(files[i])] = fs[PathLoc(files[i])]
           /\ Len(History(r.stateFile)) = Len(History(stateFile)) + 1

\* C21 (as claimed): an init that succeeds, from whatever configuration
\* document parses, leaves a record without active_profile and without
\* history
C21_FreshRecordAfterInit ==
    \A doc \in ConfigDocs \cup {CfgStale} :
      Parseable(doc)
      => LET r == init(stateFile, fs, [kind |-> "doc", doc |-> doc],
                       NoInitFault)
         IN  r.result = "ok"
             => /\ Readable(r.stateFile)
                /\ ~IsSome(Loaded(r.stateFile).active_profile)
                /\ ~IsSome(Loaded(r.stateFile).history)

\* ------------------------------------------- a setup racing a destroy
\* Two invocations of the tool run at once on the same home directory: a
\* setup and a destroy. Each is a process of its own with its own State in
\* memory; nothing locks the state file, so their steps interleave freely.
\* A step is one call that touches the disk (the loops of the Backup Engine,
\* the Symlink Engine and of destroy are taken as one step each). last holds
\* both processes: where each stands (spc, dpc), the State each has loaded,
\* what each returned, and the order of the steps so far (log)

\* the tool after init from the archive configuration, and after a setup of
\* "work" that followed it
AfterInit ==
    init(AbsentFile, InitialFs(UserFiles), [kind |-> "doc", doc |-> CfgArchive],
         NoInitFault)

AfterSetup == setup(AfterInit.stateFile, AfterInit.fs, <<>>, 0, "work", NoFault)

RaceStart(profile) ==
    [op |-> "race", profile |-> profile, spc |-> "read", dpc |-> "read",
     sstate |-> None, dstate |-> None, files |-> <<>>, zip_path |-> None,
     sres |-> "", dres |-> "", log |-> <<>>]

RaceInit ==
    /\ \E profile \in {"work", "default"} : last = RaceStart(profile)
    /\ \/ /\ stateFile = AfterInit.stateFile
          /\ fs = AfterInit.fs
          /\ archives = <<>>
          /\ clock = 0
       \/ /\ stateFile = AfterSetup.stateFile
          /\ fs = AfterSetup.fs
          /\ archives = AfterSetup.archives
          /\ clock = 1

Step(l, proc) == [l EXCEPT !.log = Append(@, proc)]

\* setup: State::new, set_active_profile and the resolution of the profile
SetupRead ==
    /\ last.op = "race" /\ last.spc = "read"
    /\ LET loaded == read_state_file(stateFile)
           state  == set_active_profile(Unwrap(loaded.state), last.profile)
           found  == ResolveProfile(state.profiles, last.profile)
       IN  last' = Step(IF ~loaded.ok
                        THEN [last EXCEPT !.spc = "done", !.sres = "state_read"]
                        ELSE IF ~IsSome(found)
                        THEN [last EXCEPT !.spc = "done", !.sres = "no_default"]
                        ELSE [last EXCEPT !.spc = "backup",
                                          !.sstate = Some(state),
                                          !.files = Unwrap(found)],
                        "setup")
    /\ UNCHANGED <<stateFile, fs, archives, clock>>

\* setup: create_backup
SetupBackup ==
    /\ last.op = "race" /\ last.spc = "backup"
    /\ LET b == create_backup(fs, archives, last.files,
                              Unwrap(last.sstate).backup_path, clock, NoFault)
       IN  /\ fs' = b.fs
           /\ archives' = b.archives
           /\ clock' = clock + 1
           /\ last' = Step([last EXCEPT !.spc = "link",
                                        !.zip_path = Some(b.zip_path)], "setup")
    /\ UNCHANGED stateFile

\* setup: create_symlinks, and append_history on the State in memory
SetupLink ==
    /\ last.op = "race" /\ last.spc = "link"
    /\ LET linked == create_symlinks(fs, last.files, Unwrap(last.sstate).path,
                                     NoFault)
           history == MkHistory(clock - 1, Unwrap(last.zip_path), last.files)
       IN  /\ fs' = linked.fs
           /\ last' = Step(IF ~linked.ok
                           THEN [last EXCEPT !.spc = "done", !.sres = "link"]
                           ELSE [last EXCEPT
                                   !.spc = "relax",
                                   !.sstate = Some(append_history(
                                                Unwrap(last.sstate), history))],
                           "setup")
    /\ UNCHANGED <<stateFile, archives, clock>>

\* write_state_file: path.exists() and the set_permissions that relaxes
SaveRelax ==
    /\ last.op = "race" /\ last.spc = "relax"
    /\ stateFile' = IF stateFile.exists
                    THEN [stateFile EXCEPT !.mode = WRITABLE_PERMISSIONS]
                    ELSE stateFile
    /\ last' = Step([last EXCEPT !.spc = "write"], "setup")
    /\ UNCHANGED <<fs, archives, clock>>

\* write_state_file: fs::write, which creates the file when there is none
SaveWrite ==
    /\ last.op = "race" /\ last.spc = "write"
    /\ IF CanOpenForWrite(stateFile)
       THEN /\ stateFile' =
                 [exists |-> TRUE,
                  mode |-> IF stateFile.exists THEN stateFile.mode
                           ELSE CreateMode,
                  content |-> Some(Serialize(Unwrap(last.sstate)))]
            /\ last' = Step([last EXCEPT !.spc = "secure"], "setup")
       ELSE /\ stateFile' = stateFile
            /\ last' = Step([last EXCEPT !.spc = "done",
                                         !.sres = "state_write"], "setup")
    /\ UNCHANGED <<fs, archives, clock>>

\* write_state_file: the set_permissions that makes the file read-only; it
\* fails when the file is gone
SaveSecure ==
    /\ last.op = "race" /\ last.spc = "secure"
    /\ IF stateFile.exists
       THEN /\ stateFile' = [stateFile EXCEPT !.mode = READONLY_PERMISSIONS]
            /\ last' = Step([last EXCEPT !.spc = "done", !.sres = "ok"],
                            "setup")
       ELSE /\ stateFile' = stateFile
            /\ last' = Step([last EXCEPT !.spc = "done",
                                         !.sres = "state_write"], "setup")
    /\ UNCHANGED <<fs, archives, clock>>

\* destroy: State::new
DestroyRead ==
    /\ last.op = "race" /\ last.dpc = "read"
    /\ LET loaded == read_state_file(stateFile)
       IN  last' = Step(IF ~loaded.ok
                        THEN [last EXCEPT !.dpc = "done", !.dres = "state_read"]
                        ELSE [last EXCEPT !.dpc = "sweep",
                                          !.dstate = loaded.state],
                        "destroy")
    /\ UNCHANGED <<stateFile, fs, archives, clock>>

\* destroy: the removals for the active profile of the State it loaded
DestroySweep ==
    /\ last.op = "race" /\ last.dpc = "sweep"
    /\ LET state == Unwrap(last.dstate)
           profile == Unwrap(state.active_profile)
       IN  fs' = IF IsSome(state.active_profile)
                    /\ profile \in DOMAIN state.profiles
                 THEN DestroyLoop(fs, state.profiles[profile], 1, {}, <<>>).fs
                 ELSE fs
    /\ last' = Step([last EXCEPT !.dpc = "remove"], "destroy")
    /\ UNCHANGED <<stateFile, archives, clock>>

\* destroy: State::remove_file
DestroyRemove ==
    /\ last.op = "race" /\ last.dpc = "remove"
    /\ LET removed == remove_file(stateFile, FALSE)
       IN  /\ stateFile' = removed.file
           /\ last' = Step([last EXCEPT !.dpc = "done",
                                        !.dres = IF removed.ok THEN "ok"
                                                 ELSE "state_remove"],
                           "destroy")
    /\ UNCHANGED <<fs, archives, clock>>

RaceNext ==
    \/ SetupRead \/ SetupBackup \/ SetupLink
    \/ SaveRelax \/ SaveWrite \/ SaveSecure
    \/ DestroyRead \/ DestroySweep \/ DestroyRemove

SpecRace == RaceInit /\ [][RaceNext]_vars

BothSucceeded ==
    /\ last.op = "race"
    /\ last.spc = "done" /\ last.sres = "ok"
    /\ last.dpc = "done" /\ last.dres = "ok"

\* the steps of one invocation fall between two steps of the other
Overlap(log) ==
    \E i, j, k \in 1..Len(log) :
        i < j /\ j < k /\ log[i] = log[k] /\ log[i] # log[j]

\* a link the setup made is still there
SetupLinkRemains ==
    \E i \in 1..Len(last.files) : is_symlink(fs, PathLoc(last.files[i]))

RecordSurvivesDestroy == BothSucceeded /\ stateFile.exists

LinksOutliveRecord ==
    BothSucceeded /\ ~stateFile.exists /\ SetupLinkRemains

\* C22: a setup and a destroy that both report success and did not overlap
\* leave no state record and none of the links destroy sweeps; the record
\* that survives destroy, and the links of "work" that outlive the record,
\* come only from runs whose steps interleave
C22_LossNeedsOverlap ==
    /\ BothSucceeded /\ ~Overlap(last.log)
       => /\ ~stateFile.exists
          /\ \A i \in 1..Len(last.files) :
                ~is_symlink(fs, PathLoc(expand_home(last.files[i])))
    /\ RecordSurvivesDestroy => Overlap(last.log)
    /\ LinksOutliveRecord /\ last.profile = "work" => Overlap(last.log)

\* the interleaving the claim speaks of: both report success, and the
\* record is there after destroy completed, or it is gone and links of the
\* setup remain
C22_Witness ==
    /\ last.op = "race" /\ last.profile = "work"
    /\ Overlap(last.log)
    /\ RecordSurvivesDestroy \/ LinksOutliveRecord

\* C23 (as claimed): whenever the archive fetch returns after the download
\* succeeded (extraction succeeded, extraction exited with failure, or the
\* extraction tool could not be started) the temporary download file is gone
C23_TempZipRemoved ==
    \A doc \in ConfigDocs :
      Parseable(doc) /\ detect_source_type(doc["url"]) = "Zip"
      => \A fault \in {"none", "unzip_fail", "unzip_spawn"} :
           LET path == expand_home(Deserialize(doc).path)
               r == download_and_extract_zip(fs, path, RemoteTree(doc["url"]),
                                             fault)
           IN  ~LExists(r.fs, PathLoc(TempZip(path)))

\* the paths at which a setup of profile makes its links
LinkPaths(state, profile) ==
    LET found == ResolveProfile(state.profiles, profile)
    IN  IF IsSome(found)
        THEN {PathLoc(Unwrap(found)[i]) : i \in 1..Len(Unwrap(found))}
        ELSE {}

\* C24 (as claimed): after an init, one or two successful setups (of the
\* same or of different profiles) and a destroy in which no removal fails,
\* no link made by any of those setups is left at its path
C24_DestroyRemovesAllLinks ==
    \A doc \in ConfigDocs, p1 \in ProfileArgs :
      LET i  == init(stateFile, fs, [kind |-> "doc", doc |-> doc], NoInitFault)
          s1 == setup(i.stateFile, i.fs, archives, clock, p1, NoFault)
          d1 == destroy(s1.stateFile, s1.fs, {}, FALSE)
      IN  i.result = "ok" /\ s1.result = "ok"
          => LET made1 == LinkPaths(Loaded(i.stateFile), p1)
             IN  /\ d1.result = "ok"
                    => \A l \in made1 : ~is_symlink(d1.fs, l)
                 /\ \A p2 \in ProfileArgs :
                      LET s2 == setup(s1.stateFile, s1.fs, s1.archives,
                                      clock + 1, p2, NoFault)
                          d2 == destroy(s2.stateFile, s2.fs, {}, FALSE)
                      IN  s2.result = "ok" /\ d2.result = "ok"
                          => \A l \in made1
                                      \cup LinkPaths(Loaded(i.stateFile), p2) :
                                ~is_symlink(d2.fs, l)

\* ------------------------------------------------ the command line of main
\* A second view of the tool: every invocation is a command line that main
\* parses and dispatches, in an environment where nothing fails. last holds
\* the command line of the latest invocation with its flags, what the
\* command returned and the exit code of the process

\* a setup that does nothing when --dry-run is given
dispatch_setup_dry(sf, f, arch, now, profile, dry_run) ==
    IF dry_run
    THEN [result |-> "ok", stateFile |-> sf, fs |-> f, archives |-> arch,
          hit |-> FALSE]
    ELSE setup(sf, f, arch, now, profile, NoFault)

\* the arm of main for Commands::Setup: the pattern binds profile and drops
\* the other fields of the variant
dispatch_setup(sf, f, arch, now, profile, dry_run) ==
    setup(sf, f, arch, now, profile, NoFault)

Command(name, config, profile, dry_run) ==
    [name |-> name, config |-> config, profile |-> profile,
     dry_run |-> dry_run]

NoConfig == [kind |-> "nopath", doc |-> CfgBroken]

CommandLines ==
    {Command("init", input, "", FALSE) : input \in InitInputs}
    \cup {Command("setup", NoConfig, profile, dry_run) :
            profile \in ProfileArgs, dry_run \in BOOLEAN}
    \cup {Command(name, NoConfig, "", FALSE) :
            name \in {"status", "destroy", "refresh", "backup"}}

Unchanged(sf, f, arch, result) ==
    [result |-> result, stateFile |-> sf, fs |-> f, archives |-> arch]

\* the match on cli.command
dispatch(sf, f, arch, now, cmd) ==
    IF cmd.name = "init"
    THEN LET r == init(sf, f, cmd.config, NoInitFault)
         IN  [result |-> r.result, stateFile |-> r.stateFile, fs |-> r.fs,
              archives |-> arch]
    ELSE IF cmd.name = "setup"
    THEN LET r == dispatch_setup(sf, f, arch, now, cmd.profile, cmd.dry_run)
         IN  [result |-> r.result, stateFile |-> r.stateFile, fs |-> r.fs,
              archives |-> r.archives]
    ELSE IF cmd.name = "status"
    THEN Unchanged(sf, f, arch, status(sf, f).result)
    ELSE IF cmd.name = "destroy"
    THEN LET r == destroy(sf, f, {}, FALSE)
         IN  [result |-> r.result, stateFile |-> r.stateFile, fs |-> r.fs,
              archives |-> arch]
    ELSE Unchanged(sf, f, arch, "ok")

ExitCode(result) == IF result = "ok" THEN 0 ELSE 1

Main ==
    \E cmd \in CommandLines :
        /\ cmd.name = "setup" => clock < MaxClock
        /\ LET r == dispatch(stateFile, fs, archives, clock, cmd)
           IN  /\ stateFile' = r.stateFile
               /\ fs' = r.fs
               /\ archives' = r.archives
               /\ clock' = IF r.archives = archives THEN clock ELSE clock + 1
               /\ last' = [op |-> "main", cmd |-> cmd, result |-> r.result,
                           exit |-> ExitCode(r.result)]

SpecMain == Init /\ [][Main]_vars

DryRunSetup ==
    /\ last.op = "main" /\ last.cmd.name = "setup" /\ last.cmd.dry_run

\* C25: a setup given --dry-run returns what the setup without the flag
\* returns from the same state, and leaves the same archives, the same
\* files and links, and the same state record
C25_DryRunIgnored ==
    [][DryRunSetup'
       => LET plain == dispatch(stateFile, fs, archives, clock,
                                [last'.cmd EXCEPT !.dry_run = FALSE])
          IN  /\ last'.result = plain.result
              /\ archives' = plain.archives
              /\ fs' = plain.fs
              /\ stateFile' = plain.stateFile]_vars

\* a setup with --dry-run that succeeded: it made an archive of a file it
\* then removed, made links, and saved the record with a new history entry
C25_Witness ==
    /\ DryRunSetup /\ last.result = "ok"
    /\ archives # <<>>
    /\ \E l \in DOMAIN fs : is_symlink(fs, l)
    /\ Readable(stateFile)
    /\ Loaded(stateFile).active_profile = Some(last.cmd.profile)
    /\ History(stateFile) # <<>>
====
